---- MODULE Spec2Model ----
(***************************************************************************)
(* autocil (src/src/index.ts, lines 1-453): one run of the command line    *)
(* tool.  parseArgs runs at module load, then main checks the environment  *)
(* and, for each target directory, profiles it, composes the teamocil      *)
(* document, writes it to a temporary file and drives tmux.                *)
(*                                                                         *)
(* Strings that the code inspects character by character (arguments,       *)
(* names) are sequences of one-character strings.  A path is a sequence    *)
(* of segments.  A shell command line is a sequence of words.              *)
(*                                                                         *)
(* Spec runs the whole command line over short argument lists.  SpecTarget *)
(* runs the loop body of main up to the composed document over one target  *)
(* directory whose files, manifest and names vary widely.                  *)
(***************************************************************************)
EXTENDS Integers, Sequences, FiniteSets, TLC

VARIABLES
    argv,         \* process.argv.slice(2)
    configFile,   \* ~/.config/autocil.yaml as found on disk
    fs,           \* contents of the directories read so far (path -> contents)
    pc,           \* position of the process
    config,       \* result of loadConfig()
    targetDirs,   \* parseArgs().targetDirs
    customName,   \* parseArgs().customName
    noAttach,     \* parseArgs().noAttach
    idx,          \* position of the for-of loop of main in targetDirs
    profile,      \* getProjectInfo() and the probes of the current target
    yaml,         \* teamocilYaml of the current target
    tempFilePath, \* tempFilePath of the current target
    tmpFiles,     \* files written under os.tmpdir(): path -> document
    sessions,     \* tmux sessions alive (found by main or created by the run)
    calls,        \* external commands issued so far, in order
    timers,       \* pending setTimeout callbacks (attach), in order
    env,          \* the environment main finds: TMUX set, teamocil on the PATH
    clock,        \* the wall clock, in milliseconds
    stderr,       \* error messages printed so far
    exitCode      \* process exit status, NoExit while running

vars == <<argv, configFile, fs, pc, config, targetDirs, customName, noAttach,
          idx, profile, yaml, tempFilePath, tmpFiles, sessions, calls, timers,
          env, clock, stderr, exitCode>>

-----------------------------------------------------------------------------
(* Bounds of the model *)

MaxArgs == 4      \* arguments on the command line
MaxTargets == 2   \* directory arguments among them
MaxNameLen == 4   \* characters of a name
MaxFiles == 3     \* probed files present in a directory
MaxScripts == 4   \* scripts of a manifest
MaxRand == 2      \* values of the random suffix (10000 in the code)

-----------------------------------------------------------------------------
(* Strings *)

Chars == {"@", "/", "-", "a", "b"}

StringsUpTo(n) == UNION {[1..k -> Chars] : k \in 0..n}

startsWith(s, p) == Len(s) >= Len(p) /\ SubSeq(s, 1, Len(p)) = p

includes(s, c) == \E i \in 1..Len(s) : s[i] = c

\* An optional value: undefined, or a value.
Undefined == [some |-> FALSE, v |-> <<>>]

Some(s) == [some |-> TRUE, v |-> s]

\* JavaScript truthiness of an optional string: undefined and '' are falsy.
TruthyOpt(o) == o.some /\ o.v # <<>>

-----------------------------------------------------------------------------
(* Paths and the directory tree the run finds on disk *)

Home == << <<"~">> >>

DefaultRoot == Home \o << <<"c", "o", "d", "e">> >>

CustomRoot == << <<"p">> >>

Cwd == << <<"w">> >>

\* The segments of a relative path, '.' segments dropped as path.resolve does.
RECURSIVE segments(_, _)
segments(s, cur) ==
    IF s = <<>>
    THEN IF cur \in {<<>>, <<".">>} THEN <<>> ELSE <<cur>>
    ELSE IF Head(s) = "/"
         THEN (IF cur \in {<<>>, <<".">>} THEN <<>> ELSE <<cur>>)
              \o segments(Tail(s), <<>>)
         ELSE segments(Tail(s), Append(cur, Head(s)))

\* path.resolve(arg) of a relative argument, and path.resolve(path.join(root, arg))
resolve(base, arg) == base \o segments(arg, <<>>)

basename(path) == path[Len(path)]

\* What is on disk: directories are named a, b or w, f is a regular file,
\* every other name is missing.
existsSync(path) == basename(path) \in {<<"a">>, <<"b">>, <<"w">>, <<"f">>}

isDirectory(path) == basename(path) \in {<<"a">>, <<"b">>, <<"w">>}

-----------------------------------------------------------------------------
(* loadConfig *)

ConfigFiles == {"absent", "malformed", "empty", "noroot", "root", "nullroot"}

\* The value YAML.parse gives for the file: no mapping (an empty document),
\* a mapping without the key root, a mapping with root set to a path, or a
\* mapping with root: null (written 'root:' or 'root: ~').
defaultConfig == [root |-> Some(DefaultRoot)]

loadConfig(file) ==
    CASE file = "absent"    -> [config |-> defaultConfig, warned |-> FALSE]
      [] file = "malformed" -> [config |-> defaultConfig, warned |-> TRUE]
      [] file = "empty"     -> [config |-> defaultConfig, warned |-> FALSE]
      [] file = "noroot"    -> [config |-> defaultConfig, warned |-> FALSE]
      [] file = "root"      -> [config |-> [root |-> Some(CustomRoot)], warned |-> FALSE]
      [] file = "nullroot"  -> [config |-> [root |-> Undefined], warned |-> FALSE]

-----------------------------------------------------------------------------
(* showHelp and the fatal exits *)

NoExit == 0 - 1

\* process.exit(0) at the end of showHelp
showHelpStatus == 0

\* console.error(msg); showHelp(); process.exit(status): showHelp ends the
\* process itself, so the process.exit(status) after it is never reached.
fatal(msg, status) == [err |-> <<msg>>, code |-> showHelpStatus]

-----------------------------------------------------------------------------
(* parseArgs *)

OptHelp == <<"-", "-", "h", "e", "l", "p">>

OptName == <<"-", "-", "n", "a", "m", "e">>

OptNoAttach == <<"-", "-", "n", "o", "-", "a", "t", "t", "a", "c", "h">>

OptBogus == <<"-", "-", "x">>

validOptions == {OptHelp, OptName, OptNoAttach}

isSimpleName(arg) == ~includes(arg, "/") /\ ~includes(arg, "\\")

resolvedPath(cfg, arg) ==
    IF isSimpleName(arg) /\ TruthyOpt(cfg.root)
    THEN resolve(cfg.root.v, arg)
    ELSE resolve(Cwd, arg)

\* The for loop of parseArgs from position i on; st holds targetDirs,
\* customName and noAttach.  The result is either the exit of the process
\* (exit = TRUE, with the messages printed and the status) or the state
\* after the loop.
RECURSIVE parseLoop(_, _, _, _)
parseLoop(cfg, args, i, st) ==
    IF i > Len(args)
    THEN [exit |-> FALSE, err |-> <<>>, code |-> NoExit, st |-> st]
    ELSE LET a == args[i] IN
         IF a = OptHelp
         THEN [exit |-> TRUE, err |-> <<>>, code |-> showHelpStatus, st |-> st]
         ELSE IF a = OptName /\ i + 1 <= Len(args)
         THEN parseLoop(cfg, args, i + 2, [st EXCEPT !.customName = Some(args[i + 1])])
         ELSE IF a = OptNoAttach
         THEN parseLoop(cfg, args, i + 1, [st EXCEPT !.noAttach = TRUE])
         ELSE IF ~startsWith(a, <<"-", "-">>)
         THEN LET p == resolvedPath(cfg, a) IN
              IF ~existsSync(p)
              THEN LET f == fatal("Directory does not exist", 1) IN
                   [exit |-> TRUE, err |-> f.err, code |-> f.code, st |-> st]
              ELSE IF ~isDirectory(p)
              THEN LET f == fatal("Not a directory", 1) IN
                   [exit |-> TRUE, err |-> f.err, code |-> f.code, st |-> st]
              ELSE parseLoop(cfg, args, i + 1,
                             [st EXCEPT !.targetDirs = Append(@, p)])
         ELSE IF startsWith(a, <<"-">>) /\ a \notin validOptions
         THEN LET f == fatal("Unknown option", 1) IN
              [exit |-> TRUE, err |-> f.err, code |-> f.code, st |-> st]
         ELSE parseLoop(cfg, args, i + 1, st)

\* As parseArgs, --name accepted with any number of directories.
parseArgsNameUnchecked(cfg, args) ==
    LET r == parseLoop(cfg, args, 1,
                       [targetDirs |-> <<>>, customName |-> Undefined,
                        noAttach |-> FALSE])
        dirs == IF r.st.targetDirs = <<>> THEN <<Cwd>> ELSE r.st.targetDirs
    IN  IF r.exit
        THEN r
        ELSE [exit |-> FALSE, err |-> <<>>, code |-> NoExit,
              st |-> [r.st EXCEPT !.targetDirs = dirs]]

parseArgs(cfg, args) ==
    LET r == parseLoop(cfg, args, 1,
                       [targetDirs |-> <<>>, customName |-> Undefined,
                        noAttach |-> FALSE])
        dirs == IF r.st.targetDirs = <<>> THEN <<Cwd>> ELSE r.st.targetDirs
    IN  IF r.exit
        THEN r
        ELSE IF TruthyOpt(r.st.customName) /\ Len(dirs) > 1
        THEN LET f == fatal("Cannot use --name with multiple directories", 1) IN
             [exit |-> TRUE, err |-> f.err, code |-> f.code, st |-> r.st]
        ELSE [exit |-> FALSE, err |-> <<>>, code |-> NoExit,
              st |-> [r.st EXCEPT !.targetDirs = dirs]]


-----------------------------------------------------------------------------
(* What a target directory holds *)

\* A JSON value found under "name" in package.json: missing, a string, or a
\* number (a value that is no string: 7 is truthy, 0 is falsy).
JUndefined == [t |-> "undefined", s |-> <<>>]

JStr(s) == [t |-> "string", s |-> s]

JNumber(s) == [t |-> "number", s |-> s]

Truthy(j) ==
    CASE j.t = "undefined" -> FALSE
      [] j.t = "string"    -> j.s # <<>>
      [] j.t = "number"    -> j.s # <<"0">>

ComposeFiles == {"docker-compose.yml", "docker-compose.yaml", "docker-compose.json"}

LockFiles == {"yarn.lock", "package-lock.json", "pnpm-lock.yaml"}

FileNames == ComposeFiles \cup LockFiles \cup {"Dockerfile"}

ScriptNames == {"dev", "test:watch", "types:watch", "lint:watch", "db:studio"}

\* The scripts of a manifest in declaration order: sequences without
\* repetition of script names (each with a non-empty command).
ScriptSeqs(n) ==
    {q \in UNION {[1..k -> ScriptNames] : k \in 0..n} :
        \A i, j \in 1..Len(q) : i # j => q[i] # q[j]}

Range(q) == {q[i] : i \in 1..Len(q)}

\* package.json: absent, present but not parseable, or parsed.
NoManifest == [state |-> "absent", name |-> JUndefined, scripts |-> <<>>]

BadManifest == [state |-> "malformed", name |-> JUndefined, scripts |-> <<>>]

Manifest(name, scripts) == [state |-> "parsed", name |-> name, scripts |-> scripts]

\* The command lines of a project-local .autocil.yaml (none: no such file).
OverrideLists == {<<>>, << <<"cmd1">> >>, << <<"cmd1">>, <<"cmd2">> >>}

Contents(files, manifest, override) ==
    [files |-> files, manifest |-> manifest, override |-> override]

-----------------------------------------------------------------------------
(* The probes of main and getProjectInfo *)

hasDockerComposeFileYmlOnly(c) == "docker-compose.yml" \in c.files

hasDockerComposeFile(c) == \E f \in ComposeFiles : f \in c.files

hasDockerfile(c) == "Dockerfile" \in c.files

detectPackageManagerNpmDefault(c) ==
    IF "yarn.lock" \in c.files THEN "yarn"
    ELSE IF "pnpm-lock.yaml" \in c.files THEN "pnpm"
    ELSE "npm"

detectPackageManager(c) ==
    IF "yarn.lock" \in c.files THEN "yarn"
    ELSE IF "package-lock.json" \in c.files THEN "npm"
    ELSE "pnpm"

\* As sanitizePackageName, the g flag of the first regular expression lost.
RECURSIVE replaceFirst(_)
replaceFirst(name) ==
    IF name = <<>> THEN <<>>
    ELSE IF Head(name) \in {"@", "/"} THEN <<"-">> \o Tail(name)
    ELSE <<Head(name)>> \o replaceFirst(Tail(name))

sanitizePackageNameFirstOnly(name) ==
    LET dashed == replaceFirst(name)
    IN  IF Len(dashed) > 0 /\ dashed[1] = "-" THEN Tail(dashed) ELSE dashed

\* name.replace(/[@/]/g, '-').replace(/^-/, '')
sanitizePackageName(name) ==
    LET dashed == [i \in 1..Len(name) |->
                      IF name[i] \in {"@", "/"} THEN "-" ELSE name[i]]
    IN  IF Len(dashed) > 0 /\ dashed[1] = "-" THEN Tail(dashed) ELSE dashed

\* As getProjectInfo, the names assigned only once the manifest is parsed: a
\* manifest that is not parseable leaves them empty.
getProjectInfoNoFallback(c, dir, custom) ==
    LET base == IF TruthyOpt(custom) THEN custom.v ELSE basename(dir)
        m == c.manifest
        named == m.state = "parsed" /\ Truthy(m.name) /\ ~TruthyOpt(custom)
        threw == named /\ m.name.t # "string"
        scripts == IF m.state = "parsed" /\ ~threw THEN Range(m.scripts) ELSE {}
    IN  [name |-> IF m.state = "malformed" THEN <<>>
                  ELSE IF named /\ ~threw THEN sanitizePackageName(m.name.s) ELSE base,
         displayName |-> IF m.state = "malformed" THEN JStr(<<>>)
                         ELSE IF named THEN m.name ELSE JStr(base),
         hasDevScript |-> "dev" \in scripts,
         hasTestsWatchScript |-> "test:watch" \in scripts,
         hasTypesWatchScript |-> "types:watch" \in scripts,
         hasDbStudioScript |-> "db:studio" \in scripts]

\* getProjectInfo(dir, customName), dir holding c.  A name that is no string
\* makes sanitizePackageName throw after displayName was assigned; the
\* exception is swallowed by the catch and the scripts are never looked at.
getProjectInfo(c, dir, custom) ==
    LET base == IF TruthyOpt(custom) THEN custom.v ELSE basename(dir)
        m == c.manifest
        named == m.state = "parsed" /\ Truthy(m.name) /\ ~TruthyOpt(custom)
        threw == named /\ m.name.t # "string"
        scripts == IF m.state = "parsed" /\ ~threw THEN Range(m.scripts) ELSE {}
    IN  [name |-> IF named /\ ~threw THEN sanitizePackageName(m.name.s) ELSE base,
         displayName |-> IF named THEN m.name ELSE JStr(base),
         hasDevScript |-> "dev" \in scripts,
         hasTestsWatchScript |-> "test:watch" \in scripts,
         hasTypesWatchScript |-> "types:watch" \in scripts,
         hasDbStudioScript |-> "db:studio" \in scripts]

-----------------------------------------------------------------------------
(* generateTeamocilYaml: the document, as teamocil reads it *)

Pane(commands, focus) == [commands |-> commands, focus |-> focus]

run(packageManager, script) == <<packageManager, "run", script>>

composeCommand(build) ==
    <<"docker", "compose", "down", "2>&1", "|", "tee", "docker-output.log", ";",
      "docker", "compose", "up">>
    \o (IF build THEN <<"--build">> ELSE <<>>)
    \o <<"2>&1", "|", "tee", "-a", "docker-output.log">>

\* As editorPane, marked focused.
editorPaneFocused == Pane(<< <<"vim">> >>, TRUE)

editorPane == Pane(<< <<"vim">> >>, FALSE)

listingPane == Pane(<< <<"sleep", "1">>, <<"tree", "--gitignore">> >>, TRUE)

testsWatchPane(pm) == Pane(<< <<"sleep", "2">>, run(pm, "test:watch") >>, FALSE)

typesWatchPane(pm) == Pane(<< run(pm, "types:watch") >>, FALSE)

devPane(pm) == Pane(<< run(pm, "dev") >>, FALSE)

dbStudioPane(pm) == Pane(<< <<pm, "db:studio">> >>, FALSE)

servicesPane(build) == Pane(<< composeCommand(build) >>, FALSE)

\* As devWindowPanes, the dev pane emitted before the watch panes.
devWindowPanesDevFirst(hasDevScript, hasTestsWatchScript, hasTypesWatchScript, pm) ==
    <<editorPane>>
    \o (IF hasDevScript THEN <<devPane(pm)>> ELSE <<>>)
    \o (IF hasTestsWatchScript THEN <<testsWatchPane(pm)>> ELSE <<>>)
    \o (IF hasTypesWatchScript THEN <<typesWatchPane(pm)>> ELSE <<>>)
    \o <<listingPane>>

devWindowPanes(hasDevScript, hasTestsWatchScript, hasTypesWatchScript, pm) ==
    <<editorPane>>
    \o (IF hasTestsWatchScript THEN <<testsWatchPane(pm)>> ELSE <<>>)
    \o (IF hasTypesWatchScript THEN <<typesWatchPane(pm)>> ELSE <<>>)
    \o (IF hasDevScript THEN <<devPane(pm)>> ELSE <<>>)
    \o <<listingPane>>

\* As servicesWindows, the services window never appended.
servicesWindowsNone(hasDockerCompose, hasDockerfileExists, hasDbStudioScript, dir, pm) ==
    <<>>

servicesWindows(hasDockerCompose, hasDockerfileExists, hasDbStudioScript, dir, pm) ==
    IF hasDockerCompose
    THEN << [name |-> "services", focus |-> FALSE, root |-> dir,
             layout |-> "even-horizontal",
             panes |-> <<servicesPane(hasDockerfileExists)>>
                       \o (IF hasDbStudioScript THEN <<dbStudioPane(pm)>> ELSE <<>>)] >>
    ELSE <<>>

\* As generateTeamocilYaml, the header comment carrying the time of the
\* composition (one mark per millisecond elapsed).
generateTeamocilYamlStamped(p, dir) ==
    [comment |-> [t |-> p.displayName.t,
                  s |-> p.displayName.s \o [k \in 1..clock |-> "-"]],
     name |-> p.name,
     windows |->
        << [name |-> "dev", focus |-> TRUE, root |-> dir,
            layout |-> "main-vertical",
            panes |-> devWindowPanes(p.hasDevScript, p.hasTestsWatchScript,
                                     p.hasTypesWatchScript, p.packageManager)] >>
        \o servicesWindows(p.hasDockerCompose, p.hasDockerfile,
                           p.hasDbStudioScript, dir, p.packageManager)]

generateTeamocilYaml(p, dir) ==
    [comment |-> p.displayName,
     name |-> p.name,
     windows |->
        << [name |-> "dev", focus |-> TRUE, root |-> dir,
            layout |-> "main-vertical",
            panes |-> devWindowPanes(p.hasDevScript, p.hasTestsWatchScript,
                                     p.hasTypesWatchScript, p.packageManager)] >>
        \o servicesWindows(p.hasDockerCompose, p.hasDockerfile,
                           p.hasDbStudioScript, dir, p.packageManager)]


-----------------------------------------------------------------------------
(* The run *)

NoProfile ==
    [name |-> <<>>, displayName |-> JUndefined, hasDevScript |-> FALSE,
     hasTestsWatchScript |-> FALSE, hasTypesWatchScript |-> FALSE,
     hasDbStudioScript |-> FALSE, hasDockerCompose |-> FALSE,
     hasDockerfile |-> FALSE, packageManager |-> ""]

NoYaml == [comment |-> JUndefined, name |-> <<>>, windows |-> <<>>]

NoPath == [name |-> <<>>, timestamp |-> 0 - 1, randomSuffix |-> 0 - 1]

NoEnv == [read |-> FALSE, insideTmux |-> FALSE, teamocilInstalled |-> FALSE]

\* What the run may find in a target directory.
RunContents ==
    {Contents({}, BadManifest, <<>>),
     Contents({"yarn.lock", "docker-compose.yml", "Dockerfile"},
              Manifest(JStr(<<"a">>), <<"dev", "test:watch", "db:studio">>), <<>>)}

\* Sessions that may exist in the tmux server before the run.
PreSessions == {<<"a">>}

\* Nothing has been done yet.
Start ==
    /\ config = defaultConfig
    /\ noAttach = FALSE
    /\ profile = NoProfile
    /\ yaml = NoYaml
    /\ tempFilePath = NoPath
    /\ tmpFiles = <<>>
    /\ sessions = {}
    /\ calls = <<>>
    /\ timers = <<>>
    /\ clock = 0
    /\ stderr = {}
    /\ exitCode = NoExit

exit(code, msgs) ==
    /\ pc' = "exited"
    /\ exitCode' = code
    /\ stderr' = stderr \cup msgs

\* const { targetDirs, customName, noAttach } = parseArgs()
ParseArgs ==
    /\ pc = "parseArgs"
    /\ LET c == loadConfig(configFile)
           r == parseArgs(c.config, argv)
           warning == IF c.warned THEN {"Warning: Error loading config file"} ELSE {}
       IN  /\ config' = c.config
           /\ IF r.exit
              THEN /\ exit(r.code, Range(r.err) \cup warning)
                   /\ UNCHANGED <<targetDirs, customName, noAttach>>
              ELSE /\ pc' = "main"
                   /\ targetDirs' = r.st.targetDirs
                   /\ customName' = r.st.customName
                   /\ noAttach' = r.st.noAttach
                   /\ stderr' = stderr \cup warning
                   /\ UNCHANGED exitCode
    /\ UNCHANGED <<argv, configFile, fs, idx, profile, yaml, tempFilePath,
                   tmpFiles, sessions, calls, timers, env, clock>>

\* As insideTmuxIsFatal, --no-attach not looked at.
insideTmuxIsFatalAlways(noAtt, inside) == inside

\* if (!noAttach && isInsideTmux())
insideTmuxIsFatal(noAtt, inside) == ~noAtt /\ inside

\* main, up to the loop: the two checks of the environment.
MainChecks ==
    /\ pc = "main"
    /\ \E inside \in BOOLEAN, installed \in BOOLEAN, pre \in SUBSET PreSessions :
          /\ env' = [read |-> TRUE, insideTmux |-> inside,
                     teamocilInstalled |-> installed]
          /\ sessions' = pre
          /\ IF insideTmuxIsFatal(noAttach, inside)
             THEN LET f == fatal("cannot be run from within a tmux session", 2)
                  IN  exit(f.code, Range(f.err))
             ELSE IF ~installed
             THEN LET f == fatal("teamocil is not installed", 3)
                  IN  exit(f.code, Range(f.err))
             ELSE /\ pc' = "profile"
                  /\ UNCHANGED <<stderr, exitCode>>
    /\ idx' = 1
    /\ UNCHANGED <<argv, configFile, fs, config, targetDirs, customName, noAttach,
                   profile, yaml, tempFilePath, tmpFiles, calls, timers, clock>>

\* The profile main builds for a directory holding c: getProjectInfo,
\* hasDockerComposeFile, hasDockerfile, detectPackageManager.
profileOf(c, dir, custom) ==
    getProjectInfo(c, dir, custom) @@
    [hasDockerCompose |-> hasDockerComposeFile(c),
     hasDockerfile |-> hasDockerfile(c),
     packageManager |-> detectPackageManager(c)]

\* The head of the loop body of main: the target is read and profiled.
Profile ==
    /\ pc = "profile"
    /\ LET dir == targetDirs[idx] IN
       \E c \in (IF dir \in DOMAIN fs THEN {fs[dir]} ELSE RunContents) :
          /\ fs' = (dir :> c) @@ fs
          /\ profile' = profileOf(c, dir, customName)
    /\ pc' = "compose"
    /\ UNCHANGED <<argv, configFile, config, targetDirs, customName, noAttach,
                   idx, yaml, tempFilePath, tmpFiles, sessions, calls, timers,
                   env, clock, stderr, exitCode>>

\* const teamocilYaml = generateTeamocilYaml(...)
Compose ==
    /\ pc = "compose"
    /\ yaml' = generateTeamocilYaml(profile, targetDirs[idx])
    /\ pc' = "persist"
    /\ UNCHANGED <<argv, configFile, fs, config, targetDirs, customName, noAttach,
                   idx, profile, tempFilePath, tmpFiles, sessions, calls, timers,
                   env, clock, stderr, exitCode>>

\* The catch of main: console.error, process.exit(1); pending timers never run.
mainCatch(msg) == exit(1, {msg})

\* The values Math.random() may give for the next suffix.  Only which
\* suffixes of a run coincide matters, so a suffix not used before is taken
\* to be the least one not used.
randomSuffixes ==
    LET used == {q.randomSuffix : q \in DOMAIN tmpFiles}
    IN  {r \in 0..(MaxRand - 1) : r <= Cardinality(used)}

\* As tempFile, one fixed file name for every target.
tempFileFixed(projectName, timestamp, randomSuffix) ==
    [name |-> <<>>, timestamp |-> 0, randomSuffix |-> 0]

\* path.join(os.tmpdir(), `${projectName}_${timestamp}_${randomSuffix}.yml`)
tempFile(projectName, timestamp, randomSuffix) ==
    [name |-> projectName, timestamp |-> timestamp, randomSuffix |-> randomSuffix]

\* tempFilePath and fs.writeFileSync(tempFilePath, teamocilYaml)
Persist ==
    /\ pc = "persist"
    /\ \E rnd \in randomSuffixes, written \in BOOLEAN :
          LET path == tempFile(profile.name, clock, rnd)
          IN  /\ tempFilePath' = path
              /\ IF written
                 THEN /\ tmpFiles' = (path :> yaml) @@ [q \in DOMAIN tmpFiles \ {path} |-> tmpFiles[q]]
                      /\ pc' = "kill"
                      /\ UNCHANGED <<stderr, exitCode>>
                 ELSE /\ mainCatch("Error: writeFileSync")
                      /\ UNCHANGED tmpFiles
    /\ UNCHANGED <<argv, configFile, fs, config, targetDirs, customName, noAttach,
                   idx, profile, yaml, sessions, calls, timers, env, clock>>

Call(op, session, file, pos, ok) ==
    [op |-> op, session |-> session, file |-> file, pos |-> pos, ok |-> ok]

\* As KillSession, the failure of tmux kill-session thrown on to main.
KillSessionThrows ==
    /\ pc = "kill"
    /\ LET found == profile.name \in sessions IN
       /\ calls' = Append(calls, Call("kill-session", profile.name, NoPath, idx, found))
       /\ sessions' = sessions \ {profile.name}
       /\ IF found
          THEN pc' = "new" /\ UNCHANGED <<stderr, exitCode>>
          ELSE mainCatch("Error: Failed to execute tmux command")
    /\ UNCHANGED <<argv, configFile, fs, config, targetDirs, customName, noAttach,
                   idx, profile, yaml, tempFilePath, tmpFiles, timers, env, clock>>

\* executeTmuxCommand: tmux kill-session -t projectName, its failure swallowed
KillSession ==
    /\ pc = "kill"
    /\ LET found == profile.name \in sessions IN
       /\ calls' = Append(calls, Call("kill-session", profile.name, NoPath, idx, found))
       /\ sessions' = sessions \ {profile.name}
    /\ pc' = "new"
    /\ UNCHANGED <<argv, configFile, fs, config, targetDirs, customName, noAttach,
                   idx, profile, yaml, tempFilePath, tmpFiles, timers, env, clock,
                   stderr, exitCode>>

\* Only attach to the last session if multiple are created
shouldAttach(dirs, i, noAtt) == ~noAtt /\ dirs[i] = dirs[Len(dirs)]

\* executeTmuxCommand: tmux new-session -d "teamocil --layout tempFilePath",
\* then the attach callback is scheduled; a non-zero status is thrown to main.
\* Until the next target is handled less than a millisecond passes, or more.
NewSession ==
    /\ pc = "new"
    /\ \E status \in {0, 1}, later \in {clock, clock + 1} :
          /\ calls' = Append(calls, Call("new-session", profile.name, tempFilePath,
                                         idx, status = 0))
          /\ IF status # 0
             THEN /\ mainCatch("Error: Failed to execute tmux command")
                  /\ UNCHANGED <<sessions, timers, idx, clock>>
             ELSE /\ sessions' = sessions \cup {profile.name}
                  /\ clock' = IF idx < Len(targetDirs) THEN later ELSE clock
                  /\ timers' = IF shouldAttach(targetDirs, idx, noAttach)
                               THEN Append(timers, [session |-> profile.name, pos |-> idx])
                               ELSE timers
                  /\ idx' = idx + 1
                  /\ pc' = IF idx < Len(targetDirs) THEN "profile" ELSE "eventloop"
                  /\ UNCHANGED <<stderr, exitCode>>
    /\ UNCHANGED <<argv, configFile, fs, config, targetDirs, customName, noAttach,
                   profile, yaml, tempFilePath, tmpFiles, env>>

\* The setTimeout callback: tmux attach-session -t projectName, its failure
\* reported and swallowed.
AttachTimer ==
    /\ pc = "eventloop"
    /\ timers # <<>>
    /\ \E ok \in BOOLEAN :
          /\ calls' = Append(calls, Call("attach-session", Head(timers).session,
                                         NoPath, Head(timers).pos, ok))
          /\ stderr' = IF ok THEN stderr ELSE stderr \cup {"Error attaching to session"}
    /\ timers' = Tail(timers)
    /\ UNCHANGED <<argv, configFile, fs, pc, config, targetDirs, customName,
                   noAttach, idx, profile, yaml, tempFilePath, tmpFiles, sessions,
                   env, clock, exitCode>>

\* Nothing is left to run: the process ends with status 0.
Finish ==
    /\ pc = "eventloop"
    /\ timers = <<>>
    /\ pc' = "exited"
    /\ exitCode' = 0
    /\ UNCHANGED <<argv, configFile, fs, config, targetDirs, customName,
                   noAttach, idx, profile, yaml, tempFilePath, tmpFiles, sessions,
                   calls, timers, env, clock, stderr>>

Next ==
    \/ ParseArgs
    \/ MainChecks
    \/ Profile
    \/ Compose
    \/ Persist
    \/ KillSession
    \/ NewSession
    \/ AttachTimer
    \/ Finish

-----------------------------------------------------------------------------
(* The runs of the command line *)

Tokens == {<<"a">>, <<".", "/", "b">>, <<"n", "x">>, <<"f">>,
           OptName, OptNoAttach, OptBogus}

isTarget(arg) == ~startsWith(arg, <<"-", "-">>)

\* The value that follows --name is no directory argument.
ArgLists ==
    {l \in UNION {[1..k -> Tokens] : k \in 0..MaxArgs} :
        Cardinality({i \in 1..Len(l) :
                        isTarget(l[i]) /\ ~(i > 1 /\ l[i - 1] = OptName)}) <= MaxTargets}

Init ==
    /\ argv \in ArgLists
    /\ configFile = "absent"
    /\ fs = <<>>
    /\ pc = "parseArgs"
    /\ targetDirs = <<>>
    /\ customName = Undefined
    /\ idx = 0
    /\ env = NoEnv
    /\ Start

Spec == Init /\ [][Next]_vars

-----------------------------------------------------------------------------
(* The runs of short command lines under every configuration file *)

ShortArgLists == UNION {[1..k -> Tokens] : k \in 0..MaxTargets}

InitConfig ==
    /\ argv \in ShortArgLists
    /\ configFile \in ConfigFiles
    /\ fs = <<>>
    /\ pc = "parseArgs"
    /\ targetDirs = <<>>
    /\ customName = Undefined
    /\ idx = 0
    /\ env = NoEnv
    /\ Start

SpecConfig == InitConfig /\ [][Next]_vars


-----------------------------------------------------------------------------
(* One target, whatever it holds: the loop body of main up to the document *)

FileSets == {f \in SUBSET FileNames : Cardinality(f) <= MaxFiles}

Names == StringsUpTo(MaxNameLen)

NameValues == {JUndefined, JNumber(<<"7">>), JNumber(<<"0">>)} \cup {JStr(n) : n \in Names}

DirA == DefaultRoot \o << <<"a">> >>

ManifestsWithScripts ==
    {NoManifest, BadManifest}
    \cup {Manifest(JStr(<<"a">>), q) : q \in ScriptSeqs(MaxScripts)}

BaseNames == {n \in Names : n # <<>> /\ ~includes(n, "/")}

\* One directory and one --name value (or none).
targetIs(dir, custom, c) ==
    /\ fs = (dir :> c)
    /\ targetDirs = <<dir>>
    /\ customName = custom

\* The layout varies (files, scripts in any order, overrides), or the names
\* vary (manifest name, --name value, base name of the directory).
InitTarget ==
    /\ argv = <<>>
    /\ configFile = "absent"
    /\ Start
    /\ env = [read |-> TRUE, insideTmux |-> FALSE, teamocilInstalled |-> TRUE]
    /\ idx = 1
    /\ pc = "profile"
    /\ \/ \E f \in FileSets, m \in ManifestsWithScripts, o \in OverrideLists :
             targetIs(DirA, Undefined, Contents(f, m, o))
       \/ \E n \in NameValues, k \in {Undefined, Some(<<>>), Some(<<"b">>)},
             f \in {{}, {"docker-compose.yml"}} :
             targetIs(DirA, k, Contents(f, Manifest(n, <<"dev", "test:watch", "db:studio">>), <<>>))
       \/ \E k \in Names, m \in {NoManifest, BadManifest, Manifest(JStr(<<"@", "a">>), <<>>)} :
             targetIs(DirA, Some(k), Contents({}, m, <<>>))
       \/ \E b \in BaseNames, m \in {NoManifest, BadManifest, Manifest(JUndefined, <<"dev">>)} :
             targetIs(Cwd \o <<b>>, Undefined, Contents({}, m, <<>>))

NextTarget ==
    \/ Profile
    \/ Compose

SpecTarget == InitTarget /\ [][NextTarget]_vars


-----------------------------------------------------------------------------
(* Properties: the composed document *)

\* The profile and the document are those of the current target.
Profiled == pc \in {"compose", "persist", "kill", "new"}

Composed == pc \in {"persist", "kill", "new"}

Target == fs[targetDirs[idx]]

DevWindow == yaml.windows[1]

isTaskCommand(cmd, script) == Len(cmd) >= 2 /\ cmd[Len(cmd)] = script

hasTaskCommand(pane, script) ==
    \E k \in 1..Len(pane.commands) : isTaskCommand(pane.commands[k], script)

\* C1: without override commands the dev pane of the dev window, if there is
\* one, is the pane right before the listing pane, which is the last pane,
\* whatever watch scripts exist and wherever dev stands in the manifest.
C1_DevPaneLast ==
    (Composed /\ Target.override = <<>>) =>
        LET panes == DevWindow.panes
            n == Len(panes)
        IN  /\ DevWindow.name = "dev"
            /\ panes[n] = listingPane
            /\ \A i \in 1..n : hasTaskCommand(panes[i], "dev") => i = n - 1

C1_Witness ==
    /\ Composed
    /\ Target.override = <<>>
    /\ Target.manifest.scripts = <<"dev", "lint:watch", "test:watch", "types:watch">>
    /\ Len(DevWindow.panes) = 5
    /\ hasTaskCommand(DevWindow.panes[4], "dev")

servicesAt(i) == i \in 1..Len(yaml.windows) /\ yaml.windows[i].name = "services"

\* C2: the document has a second window "services" exactly when one of the
\* three Docker Compose files exists in the target, its compose up command
\* carries --build exactly when a Dockerfile exists too, and a Dockerfile
\* alone gives no services window.
C2_ServicesWindow ==
    Composed =>
        /\ (\E i \in 1..Len(yaml.windows) : servicesAt(i))
              <=> (Target.files \cap ComposeFiles # {})
        /\ \A i \in 1..Len(yaml.windows) :
              servicesAt(i) =>
                 /\ i = 2
                 /\ ("--build" \in Range(yaml.windows[i].panes[1].commands[1]))
                       <=> ("Dockerfile" \in Target.files)

C2_Witness ==
    /\ Composed
    /\ Target.files = {"docker-compose.json", "Dockerfile"}
    /\ servicesAt(2)
    /\ "--build" \in Range(yaml.windows[2].panes[1].commands[1])

overridePanes(cmds) == [i \in 1..Len(cmds) |-> Pane(<<cmds[i]>>, FALSE)]

\* C3: with a non-empty list of override commands the dev window holds the
\* editor pane, one pane per override command in file order and the listing
\* pane, and nothing else.
C3_OverridePanes ==
    (Composed /\ Target.override # <<>>) =>
        DevWindow.panes = <<editorPane>> \o overridePanes(Target.override) \o <<listingPane>>

allCommands ==
    UNION {UNION {Range(yaml.windows[w].panes[q].commands) :
                     q \in 1..Len(yaml.windows[w].panes)} :
              w \in 1..Len(yaml.windows)}

taskCommands == {cmd \in allCommands : \E t \in ScriptNames : isTaskCommand(cmd, t)}

\* C10: the package manager is one of npm, yarn and pnpm; a lockfile of one
\* family alone selects that family, no lockfile selects the default, pnpm;
\* every script command of the document uses the detected manager.
C10_PackageManager ==
    Composed =>
        LET locks == Target.files \cap LockFiles
            pm == profile.packageManager
        IN  /\ pm \in {"npm", "yarn", "pnpm"}
            /\ locks = {"yarn.lock"} => pm = "yarn"
            /\ locks = {"package-lock.json"} => pm = "npm"
            /\ locks = {"pnpm-lock.yaml"} => pm = "pnpm"
            /\ locks = {} => pm = "pnpm"
            /\ \A cmd \in taskCommands : cmd[1] = pm

C10_Witness ==
    /\ Composed
    /\ Target.files = {"docker-compose.yml"}
    /\ profile.packageManager = "pnpm"
    /\ Cardinality(taskCommands) = 3


-----------------------------------------------------------------------------
(* Properties: names *)

safeSessionName(n) == ~includes(n, "@") /\ ~includes(n, "/") /\ ~startsWith(n, <<"-">>)

count(s, c) == Cardinality({i \in 1..Len(s) : s[i] = c})

slashOf(s) == CHOOSE i \in 1..Len(s) : s[i] = "/"

\* @scope/name: one '@', in front, one '/', scope and name not empty, scope
\* not starting with '-'.
isScoped(s) ==
    /\ Len(s) >= 4
    /\ s[1] = "@"
    /\ count(s, "@") = 1
    /\ count(s, "/") = 1
    /\ slashOf(s) > 2
    /\ slashOf(s) < Len(s)
    /\ s[2] # "-"

scopeOf(s) == SubSeq(s, 2, slashOf(s) - 1)

nameOf(s) == SubSeq(s, slashOf(s) + 1, Len(s))

manifestNamed == Target.manifest.state = "parsed" /\ Truthy(Target.manifest.name)

\* C7: a manifest name @scope/name gives the session name scope-name, with
\* no '@', no '/' and no leading dash.
C7_ScopedName ==
    (/\ Profiled
     /\ ~TruthyOpt(customName)
     /\ manifestNamed
     /\ Target.manifest.name.t = "string"
     /\ isScoped(Target.manifest.name.s)) =>
        /\ profile.name = scopeOf(Target.manifest.name.s) \o <<"-">>
                          \o nameOf(Target.manifest.name.s)
        /\ safeSessionName(profile.name)

C7_Witness ==
    /\ Profiled
    /\ ~TruthyOpt(customName)
    /\ Target.manifest.name = JStr(<<"@", "b", "/", "a">>)
    /\ profile.name = <<"b", "-", "a">>

\* C8: the session name of every profile, whether it comes from --name, from
\* the manifest or from the directory, has no '@', no '/' and no leading '-'.
C8_SafeSessionName == Profiled => safeSessionName(profile.name)

\* String(value) of a JSON value used as a name.
rendered(j) == j.s

\* C9: an explicit name is both names, even when the manifest declares one;
\* otherwise the name a parseable manifest declares is the display name and
\* its sanitized form the session name; otherwise both are the base name of
\* the directory.
C9_NamePrecedence ==
    Profiled =>
        IF TruthyOpt(customName)
        THEN /\ profile.name = customName.v
             /\ profile.displayName = JStr(customName.v)
        ELSE IF manifestNamed
        THEN /\ profile.displayName = Target.manifest.name
             /\ profile.name = sanitizePackageName(rendered(Target.manifest.name))
        ELSE /\ profile.name = basename(targetDirs[idx])
             /\ profile.displayName = JStr(basename(targetDirs[idx]))

-----------------------------------------------------------------------------
(* Properties: the run *)

ValidationErrors ==
    {"Directory does not exist", "Not a directory", "Unknown option",
     "Cannot use --name with multiple directories"}

InsideTmuxError == "cannot be run from within a tmux session"

NotInstalledError == "teamocil is not installed"

GenericErrors == {"Error: writeFileSync", "Error: Failed to execute tmux command"}

\* C5: every fatal condition ends the process with a status other than 0,
\* the one of its class: 1 for the validation failures, 2 and 3 for the two
\* preconditions on the environment, 1 for a failure caught by main.
C5_FatalExitStatus ==
    pc = "exited" =>
        /\ stderr \cap ValidationErrors # {} => exitCode = 1
        /\ InsideTmuxError \in stderr => exitCode = 2
        /\ NotInstalledError \in stderr => exitCode = 3
        /\ stderr \cap GenericErrors # {} => exitCode = 1

noWorkDone == fs = <<>> /\ tmpFiles = <<>> /\ calls = <<>> /\ timers = <<>>

\* C6: inside a tmux session with auto-attach requested, or without teamocil
\* on the PATH, the run ends before any target is processed: nothing is
\* profiled or written and no tmux command is issued.  Inside a tmux session
\* with --no-attach the run goes on to the targets.
C6_EnvironmentAbort ==
    env.read =>
        /\ ((~noAttach /\ env.insideTmux) \/ ~env.teamocilInstalled)
              => (pc = "exited" /\ noWorkDone)
        /\ (noAttach /\ env.insideTmux /\ env.teamocilInstalled)
              => (InsideTmuxError \notin stderr /\ (pc = "exited" => fs # <<>>))

C6_Witness ==
    /\ env.read
    /\ env.insideTmux
    /\ env.teamocilInstalled
    /\ ~noAttach
    /\ Len(targetDirs) = 2
    /\ pc = "exited"
    /\ InsideTmuxError \in stderr

callsOf(op) == {i \in 1..Len(calls) : calls[i].op = op}

createdAll ==
    Cardinality({i \in callsOf("new-session") : calls[i].ok}) = Len(targetDirs)

\* C4: with auto-attach, once every target has its session and the process
\* has ended, tmux attach-session was invoked exactly once, for the session
\* of the last target, and at no time for an earlier position of the list.
C4_AttachOnlyLast ==
    /\ \A i \in callsOf("attach-session") : calls[i].pos = Len(targetDirs)
    /\ (pc = "exited" /\ ~noAttach /\ targetDirs # <<>> /\ createdAll) =>
          /\ Cardinality(callsOf("attach-session")) = 1
          /\ \A i \in callsOf("attach-session") : calls[i].session = profile.name

-----------------------------------------------------------------------------
(* Properties: watch tasks *)

\* The script names that end with ':watch'.
WatchScripts == {"test:watch", "types:watch", "lint:watch"}

\* The watch tasks of a manifest in the order that gives panes: test:watch,
\* types:watch, then the remaining ones in declaration order.
watchPaneOrder(scripts) ==
    (IF "test:watch" \in Range(scripts) THEN <<"test:watch">> ELSE <<>>)
    \o (IF "types:watch" \in Range(scripts) THEN <<"types:watch">> ELSE <<>>)
    \o SelectSeq(scripts, LAMBDA s : s \in WatchScripts \ {"test:watch", "types:watch"})

watchOf(pane) == {s \in WatchScripts : hasTaskCommand(pane, s)}

\* C11: every script of the manifest whose name ends with ':watch' has a pane
\* of its own in the dev window, exactly once: test:watch first, types:watch
\* second, then the remaining watch scripts in declaration order.
C11_WatchPanes ==
    (Composed /\ Target.override = <<>> /\ Target.manifest.state = "parsed") =>
        LET watchPanes == SelectSeq(DevWindow.panes, LAMBDA p : watchOf(p) # {})
            expected == watchPaneOrder(Target.manifest.scripts)
        IN  /\ Len(watchPanes) = Len(expected)
            /\ \A i \in 1..Len(expected) : watchOf(watchPanes[i]) = {expected[i]}

-----------------------------------------------------------------------------
(* Properties: override commands and the services window *)

\* The directory as it would be without its override file.
withoutOverride(c) == Contents(c.files, c.manifest, <<>>)

-----------------------------------------------------------------------------
(* Properties: the command line *)

NameWithManyError == "Cannot use --name with multiple directories"

\* What the loop of parseArgs makes of the command line.
loopEnd ==
    parseLoop(loadConfig(configFile).config, argv, 1,
              [targetDirs |-> <<>>, customName |-> Undefined, noAttach |-> FALSE])

\* C13: a command line that names a session with --name and gives more than
\* one target directory ends the process inside parseArgs, before any work:
\* nothing profiled, no document written, no tmux command issued.  With
\* --name and one target directory, or none, parseArgs returns that name and
\* a single target to main.  A process that has entered main never printed
\* the error and never has a name together with several targets.
C13_NameNeedsOneTarget ==
    /\ (pc \in {"main", "exited"} /\ ~env.read
           /\ ~loopEnd.exit /\ TruthyOpt(loopEnd.st.customName)) =>
          IF Len(loopEnd.st.targetDirs) > 1
          THEN /\ pc = "exited"
               /\ NameWithManyError \in stderr
               /\ noWorkDone
               /\ sessions = {}
          ELSE /\ pc = "main"
               /\ NameWithManyError \notin stderr
               /\ customName = loopEnd.st.customName
               /\ Len(targetDirs) = 1
    /\ env.read =>
          /\ NameWithManyError \notin stderr
          /\ TruthyOpt(customName) => Len(targetDirs) = 1

C13_Witness ==
    /\ argv = <<OptName, <<"n", "x">>, <<"a">>, <<".", "/", "b">> >>
    /\ pc = "exited"
    /\ NameWithManyError \in stderr
    /\ noWorkDone

\* Every target of the list has been processed.
ranToEnd == targetDirs # <<>> /\ idx = Len(targetDirs) + 1

\* Target i has its document on disk and its session created from it.
launched(i) ==
    \E k \in callsOf("new-session") :
        /\ calls[k].pos = i
        /\ calls[k].ok
        /\ calls[k].file \in DOMAIN tmpFiles

\* C14: with --no-attach anywhere on the command line, tmux attach-session
\* is never invoked nor scheduled, and a run in which every step succeeds
\* still writes a document and creates a detached session for every target.
C14_NoAttachNeverAttaches ==
    (\E i \in 1..Len(argv) : argv[i] = OptNoAttach) =>
        /\ callsOf("attach-session") = {}
        /\ timers = <<>>
        /\ ranToEnd => \A i \in 1..Len(targetDirs) : launched(i)

-----------------------------------------------------------------------------
(* Properties: a manifest that cannot be parsed *)

malformedTarget ==
    /\ idx \in 1..Len(targetDirs)
    /\ targetDirs[idx] \in DOMAIN fs
    /\ Target.manifest.state = "malformed"

\* C15: for a target whose package.json is not parseable the profile is the
\* one of the same directory without package.json: both names are the --name
\* value or else the base name of the directory and no script is detected.
\* The run does not end on it: the document is composed and the process goes
\* on to write it and to create the session, and ends during that target
\* only on a failure of the write or of tmux.
C15_MalformedManifest ==
    malformedTarget =>
        LET dir == targetDirs[idx]
            base == IF TruthyOpt(customName) THEN customName.v ELSE basename(dir)
        IN  /\ pc # "profile" =>
                  /\ profile.name = base
                  /\ profile.displayName = JStr(base)
                  /\ ~profile.hasDevScript
                  /\ ~profile.hasTestsWatchScript
                  /\ ~profile.hasTypesWatchScript
                  /\ ~profile.hasDbStudioScript
                  /\ profile = profileOf(Contents(Target.files, NoManifest, Target.override),
                                         dir, customName)
            /\ Composed => /\ yaml.name = base
                           /\ Len(DevWindow.panes) = 2
            /\ pc = "exited" => stderr \cap GenericErrors # {}

C15_Witness ==
    /\ pc = "exited"
    /\ Len(targetDirs) = 2
    /\ ranToEnd
    /\ fs[targetDirs[1]].manifest.state = "malformed"
    /\ fs[targetDirs[2]].manifest.state = "parsed"
    /\ launched(1)
    /\ launched(2)

-----------------------------------------------------------------------------
(* Properties: two compositions of one target *)

dirOf(k) == targetDirs[calls[k].pos]

\* The file of call k was written for its directory only.
ownFile(k) ==
    /\ \A h \in callsOf("new-session") : calls[h].file = calls[k].file => dirOf(h) = dirOf(k)
    /\ (pc \in {"kill", "new"} /\ tempFilePath = calls[k].file) => targetDirs[idx] = dirOf(k)

-----------------------------------------------------------------------------
(* Properties: the shape of the dev window *)

\* The panes marked focused, as (window, pane) positions.
focusedPanes ==
    UNION {{<<w, q>> : q \in {k \in 1..Len(yaml.windows[w].panes) :
                                  yaml.windows[w].panes[k].focus}} :
              w \in 1..Len(yaml.windows)}

\* C17: in every composed document the first pane of the dev window runs the
\* editor and is not focused, the last pane of the dev window runs the short
\* delay and the directory listing, and that pane is the only focused pane
\* of the document.
C17_EditorFirstListingFocused ==
    Composed =>
        LET panes == DevWindow.panes
            n == Len(panes)
        IN  /\ DevWindow.name = "dev"
            /\ n >= 2
            /\ panes[1].commands = << <<"vim">> >>
            /\ ~panes[1].focus
            /\ panes[n].commands = << <<"sleep", "1">>, <<"tree", "--gitignore">> >>
            /\ focusedPanes = {<<1, n>>}

C17_Witness ==
    /\ Composed
    /\ Len(yaml.windows) = 2
    /\ Len(yaml.windows[1].panes) = 5
    /\ Len(yaml.windows[2].panes) = 2
    /\ focusedPanes = {<<1, 5>>}

-----------------------------------------------------------------------------
(* Properties: the tasks of the manifest and their panes *)

\* The tasks the manifest of the target declares.
tasks == IF Target.manifest.state = "parsed" THEN Range(Target.manifest.scripts) ELSE {}

\* C18: without override commands the panes of the dev window are, in this
\* order, the editor, test:watch after a short delay (iff the manifest has
\* that task), types:watch without delay (iff it has that task), dev (iff it
\* has that task) and the listing; a target with the tasks dev and test:watch
\* only, no lockfile and no Docker file gives the one window "dev" with the
\* panes editor, test:watch, dev, listing, run with pnpm.
C18_DevWindowOrder ==
    (Composed /\ Target.override = <<>>) =>
        /\ DevWindow.name = "dev"
        /\ DevWindow.panes =
              << Pane(<< <<"vim">> >>, FALSE) >>
              \o (IF "test:watch" \in tasks
                  THEN << Pane(<< <<"sleep", "2">>,
                                  <<profile.packageManager, "run", "test:watch">> >>, FALSE) >>
                  ELSE <<>>)
              \o (IF "types:watch" \in tasks
                  THEN << Pane(<< <<profile.packageManager, "run", "types:watch">> >>, FALSE) >>
                  ELSE <<>>)
              \o (IF "dev" \in tasks
                  THEN << Pane(<< <<profile.packageManager, "run", "dev">> >>, FALSE) >>
                  ELSE <<>>)
              \o << Pane(<< <<"sleep", "1">>, <<"tree", "--gitignore">> >>, TRUE) >>
        /\ (tasks = {"dev", "test:watch"} /\ Target.files = {}) =>
              /\ Len(yaml.windows) = 1
              /\ Len(DevWindow.panes) = 4
              /\ profile.packageManager = "pnpm"

\* The panes that run the database studio, as (window, pane) positions.
studioPanes ==
    UNION {{<<w, q>> : q \in {k \in 1..Len(yaml.windows[w].panes) :
                                  hasTaskCommand(yaml.windows[w].panes[k], "db:studio")}} :
              w \in 1..Len(yaml.windows)}

\* C19: the document has a database studio pane exactly when the target has
\* a Docker Compose file and the manifest a db:studio task; it is then the
\* second and last pane of the services window, after the compose pane; a
\* db:studio task without a Compose file gives no such pane in any window.
C19_StudioPane ==
    Composed =>
        /\ (studioPanes # {})
              <=> (Target.files \cap ComposeFiles # {} /\ "db:studio" \in tasks)
        /\ studioPanes # {} =>
              /\ studioPanes = {<<2, 2>>}
              /\ yaml.windows[2].name = "services"
              /\ Len(yaml.windows[2].panes) = 2
              /\ "compose" \in Range(yaml.windows[2].panes[1].commands[1])

-----------------------------------------------------------------------------
(* Properties: the session of a target is replaced *)

\* C20: every tmux new-session is directly preceded by the tmux kill-session
\* for the same session name and the same target, and every kill-session,
\* whether it found a session or failed, is followed by that new-session:
\* after it the process is about to create the session, on a server that
\* has no session of that name.
C20_KillBeforeCreate ==
    /\ \A k \in callsOf("new-session") :
          /\ k > 1
          /\ calls[k - 1].op = "kill-session"
          /\ calls[k - 1].session = calls[k].session
          /\ calls[k - 1].pos = calls[k].pos
    /\ \A k \in callsOf("kill-session") :
          IF k < Len(calls)
          THEN calls[k + 1].op = "new-session"
          ELSE /\ pc = "new"
               /\ calls[k].session = profile.name
               /\ profile.name \notin sessions

C20_Witness ==
    /\ pc = "exited"
    /\ exitCode = 0
    /\ Len(calls) >= 4
    /\ calls[1].op = "kill-session" /\ calls[1].ok
    /\ calls[2].op = "new-session" /\ calls[2].ok
    /\ calls[3].op = "kill-session" /\ ~calls[3].ok
    /\ calls[4].op = "new-session" /\ calls[4].ok

-----------------------------------------------------------------------------
(* Properties: the targets one after the other *)

created == callsOf("new-session")

\* The targets whose session has been created.
done == {calls[k].pos : k \in {h \in created : calls[h].ok}}

\* C21: the targets are handled one at a time in the order of the command
\* line.  While target idx is handled exactly the targets before it have
\* been profiled, written and launched, each by one tmux new-session that
\* names the file written for that target; the file of the current target
\* holds its own document when its session is created; every file written
\* belongs to one of the targets, and after N targets N sessions have been
\* created, one per target.
C21_Sequential ==
    (env.read /\ idx >= 1
        /\ stderr \cap (GenericErrors \cup {InsideTmuxError, NotInstalledError}) = {}
        /\ pc \in {"profile", "compose", "persist", "kill", "new", "eventloop", "exited"}) =>
        /\ idx <= Len(targetDirs) + 1
        /\ (idx = Len(targetDirs) + 1) <=> (pc \in {"eventloop", "exited"})
        /\ done = 1..(idx - 1)
        /\ Cardinality(created) = idx - 1
        /\ \A k \in created :
              /\ calls[k].file \in DOMAIN tmpFiles
              /\ calls[k].file.name = tmpFiles[calls[k].file].name
              /\ \A h \in created : h < k => calls[h].pos < calls[k].pos
        /\ DOMAIN fs = {targetDirs[i] : i \in 1..(IF pc \in {"profile", "eventloop", "exited"}
                                                  THEN idx - 1 ELSE idx)}
        /\ DOMAIN tmpFiles =
              {calls[k].file : k \in created}
              \cup (IF pc \in {"kill", "new"} THEN {tempFilePath} ELSE {})
        /\ pc \in {"kill", "new"} =>
              /\ tmpFiles[tempFilePath] = yaml
              /\ tempFilePath.name = profile.name
              /\ DevWindow.root = targetDirs[idx]

C21_Witness ==
    /\ pc = "exited"
    /\ ranToEnd
    /\ Len(targetDirs) = 2
    /\ targetDirs[1] # targetDirs[2]
    /\ done = {1, 2}
    /\ Cardinality(DOMAIN tmpFiles) = 2
    /\ \A k \in created : tmpFiles[calls[k].file].windows[1].root = targetDirs[calls[k].pos]

-----------------------------------------------------------------------------
(* Properties: the configuration file and the targets *)

\* The root directory the configuration file stands for: the one it sets,
\* otherwise the default under the home directory.
rootOf(file) == IF file = "root" THEN CustomRoot ELSE DefaultRoot

\* parseArgs has returned.
parsed == pc # "parseArgs" /\ (pc = "exited" => env.read)

\* C22: a target argument without a path separator is resolved against the
\* configured root directory, one with a path separator against the current
\* working directory and never against the root; without a target argument
\* the one target is the current working directory.
C22_TargetResolution ==
    (parsed /\ \A i \in 1..Len(argv) : argv[i] # OptName) =>
        LET args == SelectSeq(argv, isTarget)
        IN  IF args = <<>>
            THEN targetDirs = <<Cwd>>
            ELSE /\ Len(targetDirs) = Len(args)
                 /\ \A i \in 1..Len(args) :
                       targetDirs[i] =
                          IF includes(args[i], "/")
                          THEN Cwd \o segments(args[i], <<>>)
                          ELSE rootOf(configFile) \o <<args[i]>>

\* C23: loading the configuration never ends the run and always gives a
\* usable root directory: the default under the home directory when the file
\* is absent, has no root key or is malformed, with a warning in the
\* malformed case only, and the value of the file when the file sets root.
C23_UsableRoot ==
    pc # "parseArgs" =>
        /\ TruthyOpt(config.root)
        /\ config.root.v = rootOf(configFile)
        /\ ("Warning: Error loading config file" \in stderr) <=> (configFile = "malformed")

\* The targets for which an override layout file can be found: nx, whose
\* directory does not exist, and a, whose directory exists.
hasOverrideFile(arg) == arg \in {<<"n", "x">>, <<"a">>}

acceptable(arg) ==
    \/ hasOverrideFile(arg)
    \/ /\ existsSync(resolvedPath(config, arg))
       /\ isDirectory(resolvedPath(config, arg))

\* C24: a command line of target arguments is accepted exactly when every
\* one of them resolves to an existing directory or has an override file: a
\* target with neither, or one that exists but is no directory, ends the run
\* with the error of its kind, a target with an override file is accepted
\* even without its directory, and its session is started from the override
\* file, not from a generated document.
C24_TargetAccepted ==
    (pc # "parseArgs" /\ argv # <<>> /\ \A i \in 1..Len(argv) : isTarget(argv[i])) =>
        /\ parsed <=> \A i \in 1..Len(argv) : acceptable(argv[i])
        /\ ~parsed => stderr \cap {"Directory does not exist", "Not a directory"} # {}
        /\ \A k \in created :
              hasOverrideFile(argv[calls[k].pos]) => calls[k].file \notin DOMAIN tmpFiles

-----------------------------------------------------------------------------
(* Two invocations at once *)

\* The directory the other invocation was started for: another directory
\* named a, so that both invocations may derive the session name a.
OtherDir == Cwd \o <<<<"o">>, <<"a">>>>

\* main of the other invocation, from its profile to writeFileSync: it
\* shares the temporary directory and the clock of this one.
OtherPersist ==
    /\ \A q \in DOMAIN tmpFiles : tmpFiles[q].windows[1].root # OtherDir
    /\ \E c \in RunContents, rnd \in randomSuffixes :
          LET p == profileOf(c, OtherDir, Undefined)
              path == tempFile(p.name, clock, rnd)
          IN  tmpFiles' = (path :> generateTeamocilYaml(p, OtherDir))
                          @@ [q \in DOMAIN tmpFiles \ {path} |-> tmpFiles[q]]
    /\ UNCHANGED <<argv, configFile, fs, pc, config, targetDirs, customName,
                   noAttach, idx, profile, yaml, tempFilePath, sessions, calls,
                   timers, env, clock, stderr, exitCode>>

NextConcurrent ==
    \/ Next
    \/ OtherPersist

InitConcurrent ==
    /\ argv \in ShortArgLists
    /\ configFile = "absent"
    /\ fs = <<>>
    /\ pc = "parseArgs"
    /\ targetDirs = <<>>
    /\ customName = Undefined
    /\ idx = 0
    /\ env = NoEnv
    /\ Start

SpecConcurrent == InitConcurrent /\ [][NextConcurrent]_vars

\* The document was written by the other invocation.
ofOther(doc) == doc.windows[1].root = OtherDir

\* C25: two invocations running at once never persist their documents to
\* the same path: no write of one invocation lands on a path that holds the
\* document of the other, so a document stays the one its runner will read.
C25_DistinctPaths ==
    [][\A q \in DOMAIN tmpFiles :
          /\ q \in DOMAIN tmpFiles'
          /\ ofOther(tmpFiles'[q]) = ofOther(tmpFiles[q])]_vars

-----------------------------------------------------------------------------
(* Properties: validation before any effect *)

\* The token at position i is not the value given to --name.
notNameValue(i) == ~(i > 1 /\ argv[i - 1] = OptName)

\* Position i holds a target argument that is no existing directory.
badTarget(i) ==
    /\ isTarget(argv[i])
    /\ notNameValue(i)
    /\ LET p == resolvedPath(loadConfig(configFile).config, argv[i])
       IN  ~(existsSync(p) /\ isDirectory(p))

\* C26: a command line that holds, at any position, a target argument that
\* does not exist or is no directory, or an unknown option, ends the process
\* in parseArgs with nothing done for any target: nothing profiled, no
\* document written, no session killed, created or attached.
C26_ValidationFirst ==
    (\E i \in 1..Len(argv) : argv[i] = OptBogus \/ badTarget(i)) =>
        /\ pc \in {"parseArgs", "exited"}
        /\ noWorkDone
        /\ sessions = {}

-----------------------------------------------------------------------------
(* Properties: the sessions of a run with several targets *)

distinctTargets ==
    \A i, j \in 1..Len(targetDirs) : i # j => targetDirs[i] # targetDirs[j]

\* The new-session calls of the run that succeeded.
succeeded == {k \in created : calls[k].ok}

\* C30: in a run over distinct targets the sessions created so far have
\* pairwise different names and all still exist: no later target has ended
\* the session of an earlier one, and after N targets succeeded there are N
\* sessions of the run.
C30_SessionsSurvive ==
    distinctTargets =>
        /\ \A i, j \in created : i # j => calls[i].session # calls[j].session
        /\ \A k \in succeeded : calls[k].session \in sessions
        /\ Cardinality({calls[k].session : k \in succeeded} \cap sessions)
              = Cardinality(succeeded)

-----------------------------------------------------------------------------
(* Properties: a session that cannot be created *)

\* The new-session calls of the run that returned a non-zero status.
failedCreate == {k \in created : ~calls[k].ok}

\* C27: when tmux new-session fails for a target the process ends with
\* status 1 and that call is the last command of the run: no later target is
\* profiled, persisted or created, no attach is invoked, and the sessions
\* created for the earlier targets still exist.  An attach is only invoked
\* for a session that the run created successfully before.
C27_FailedCreate ==
    /\ \A k \in failedCreate :
          /\ pc = "exited"
          /\ exitCode = 1
          /\ k = Len(calls)
          /\ \A j \in 1..Len(calls) : calls[j].pos <= calls[k].pos
          /\ DOMAIN fs = {targetDirs[i] : i \in 1..calls[k].pos}
          /\ DOMAIN tmpFiles = {calls[j].file : j \in created}
          /\ callsOf("attach-session") = {}
          /\ \A j \in succeeded : calls[j].session \in sessions
    /\ \A a \in callsOf("attach-session") :
          \E j \in succeeded :
              /\ j < a
              /\ calls[j].session = calls[a].session
              /\ calls[j].pos = calls[a].pos

-----------------------------------------------------------------------------
(* Properties: the two names of a profile *)

\* C28: without an explicit name the two names of a profile change together:
\* either the display name is the name the manifest declares and the session
\* name its sanitized form, or both are the base name of the directory.  No
\* profile has the manifest's name for display and the base name for the
\* session.
C28_NamesTogether ==
    (Profiled /\ ~TruthyOpt(customName)) =>
        \/ /\ manifestNamed
           /\ profile.displayName = Target.manifest.name
           /\ profile.name = sanitizePackageName(rendered(Target.manifest.name))
        \/ /\ profile.displayName = JStr(basename(targetDirs[idx]))
           /\ profile.name = basename(targetDirs[idx])

-----------------------------------------------------------------------------
(* Properties: the run syntax of the package manager *)

\* C29: every command of the document that runs a task of the manifest has
\* the form <manager> run <task> with the detected manager, in the dev
\* window and in the services window.
C29_RunSyntax ==
    Composed =>
        \A cmd \in taskCommands :
            \E t \in ScriptNames : cmd = <<profile.packageManager, "run", t>>


====
